---- MODULE Spec2Model ----
(***************************************************************************)
(* WebSPS: a soft PLC.  IL text is compiled by generateCodeStructure and   *)
(* generateJSCode into JavaScript text, which #SPSRuntime evaluates on the  *)
(* register banks E (inputs), A (outputs) and M (flags).  The class SPS    *)
(* holds the run state, the banks, the scan counter and the interval       *)
(* timer.  JavaScript is single threaded: every method and every timer     *)
(* callback runs to completion, so each is one action.                     *)
(***************************************************************************)
EXTENDS Integers, Sequences, FiniteSets, TLC

(* ------------------------------ bounds -------------------------------- *)
\* constructor arguments of the instance under study
NumInputs == 3
NumOutputs == 2
NumFlags == 1
\* scans are cut off once the counter reaches this value
MaxCounter == 3

(* --------------------------- JavaScript values ------------------------- *)
\* Register cells hold the numbers 0 and 1 (fill(0), caller arrays), the
\* booleans written by compiled statements, or undefined (array holes,
\* indices outside the array).
Truthy(v) == v \in {"1", "true"}

JSNot(v) == IF Truthy(v) THEN "false" ELSE "true"

\* a && b and a || b return one of their operands
JSAnd(a, b) == IF Truthy(a) THEN b ELSE a

JSOr(a, b) == IF Truthy(a) THEN a ELSE b

\* a !== b is strict: 1 and true are different values
JSNeq(a, b) == IF a # b THEN "true" ELSE "false"

(* ------------------------------ the banks ------------------------------ *)
\* A bank is a JavaScript array: a function on 0..length-1, plus the
\* property "-1" once a statement has written index -1.
MaxRegisters == 256

NewArray(n) == [j \in 0..((IF n > MaxRegisters THEN MaxRegisters ELSE n) - 1) |-> "0"]

Length(bank) == Cardinality({j \in DOMAIN bank : j >= 0})

Fill0(bank) == [j \in DOMAIN bank |-> IF j >= 0 THEN "0" ELSE bank[j]]

ReadReg(regs, b, i) == IF i \in DOMAIN regs[b] THEN regs[b][i] ELSE "undefined"

WriteBank(bank, i, v) ==
  [j \in (DOMAIN bank) \cup (0..i) \cup {i} |->
     IF j = i THEN v ELSE IF j \in DOMAIN bank THEN bank[j] ELSE "undefined"]

WriteReg(regs, b, i, v) == [regs EXCEPT ![b] = WriteBank(regs[b], i, v)]

(* ------------------------ generated JavaScript ------------------------- *)
\* The generated text is kept as the sequence of the pieces generateJSCode
\* appends; k is the piece, b and i the register it names (if any).
Js(k) == [b |-> "", i |-> 0, k |-> k]

JsReg(k, b, i) == [b |-> b, i |-> i, k |-> k]

NoParse == [v |-> "undefined", ok |-> FALSE, p |-> 0]

Parsed(p, v) == [v |-> v, ok |-> TRUE, p |-> p]

\* the token at position p is k
At(c, p, k) == p <= Len(c) /\ c[p].k = k

\* ! applied to the parsed operand r
Negated(r) == IF r.ok THEN Parsed(r.p, JSNot(r.v)) ELSE NoParse

\* the ")" that has to follow the parsed inner expression r
Closed(c, r) == IF r.ok /\ At(c, r.p, ")") THEN Parsed(r.p + 1, r.v) ELSE NoParse

\* left operand l combined with the parsed right operand r
Combined(k, l, r) ==
  IF ~r.ok THEN NoParse
  ELSE Parsed(r.p, CASE k = "!==" -> JSNeq(l.v, r.v)
                     [] k = "&&" -> JSAnd(l.v, r.v)
                     [] k = "||" -> JSOr(l.v, r.v))

RECURSIVE ParseOr(_, _, _)
RECURSIVE ParseUnary(_, _, _)
RECURSIVE ParseEqRest(_, _, _)
RECURSIVE ParseAndRest(_, _, _)
RECURSIVE ParseOrRest(_, _, _)

\* UnaryExpression: ! UnaryExpression | this.#X[i] | ( Expression )
ParseUnary(c, p, regs) ==
  IF At(c, p, "!") THEN Negated(ParseUnary(c, p + 1, regs))
  ELSE IF At(c, p, "ref") THEN Parsed(p + 1, ReadReg(regs, c[p].b, c[p].i))
  ELSE IF At(c, p, "(") THEN Closed(c, ParseOr(c, p + 1, regs))
  ELSE NoParse

\* EqualityExpression: left associative chain of !== after the operand l
ParseEqRest(c, regs, l) ==
  IF l.ok /\ At(c, l.p, "!==")
  THEN ParseEqRest(c, regs, Combined("!==", l, ParseUnary(c, l.p + 1, regs)))
  ELSE l

ParseEq(c, p, regs) == ParseEqRest(c, regs, ParseUnary(c, p, regs))

\* LogicalANDExpression: chain of && over equality expressions
ParseAndRest(c, regs, l) ==
  IF l.ok /\ At(c, l.p, "&&")
  THEN ParseAndRest(c, regs, Combined("&&", l, ParseEq(c, l.p + 1, regs)))
  ELSE l

ParseAnd(c, p, regs) == ParseAndRest(c, regs, ParseEq(c, p, regs))

\* LogicalORExpression: chain of || over AND expressions
ParseOrRest(c, regs, l) ==
  IF l.ok /\ At(c, l.p, "||")
  THEN ParseOrRest(c, regs, Combined("||", l, ParseAnd(c, l.p + 1, regs)))
  ELSE l

ParseOr(c, p, regs) == ParseOrRest(c, regs, ParseAnd(c, p, regs))

\* variant: S inverts its target
ApplyThen_setInverts(regs, t, v) ==
  IF t.k = "then-set" THEN
    IF Truthy(v) THEN WriteReg(regs, t.b, t.i, JSNot(ReadReg(regs, t.b, t.i)))
    ELSE regs
  ELSE IF t.k = "then-reset" THEN
    IF Truthy(v) THEN WriteReg(regs, t.b, t.i, "false") ELSE regs
  ELSE
    WriteReg(regs, t.b, t.i, IF Truthy(v) THEN "true" ELSE "false")

\* variant: S writes the value of the condition, as = does
ApplyThen_setAssigns(regs, t, v) ==
  IF t.k = "then-reset" THEN
    IF Truthy(v) THEN WriteReg(regs, t.b, t.i, "false") ELSE regs
  ELSE
    WriteReg(regs, t.b, t.i, IF Truthy(v) THEN "true" ELSE "false")

\* The statement that follows ") {" of an if, applied for condition value v
ApplyThen(regs, t, v) ==
  IF t.k = "then-set" THEN
    IF Truthy(v) THEN WriteReg(regs, t.b, t.i, "true") ELSE regs
  ELSE IF t.k = "then-reset" THEN
    IF Truthy(v) THEN WriteReg(regs, t.b, t.i, "false") ELSE regs
  ELSE
    WriteReg(regs, t.b, t.i, IF Truthy(v) THEN "true" ELSE "false")

RECURSIVE ExecFrom(_, _, _)
RECURSIVE ExecIf(_, _, _)

\* StatementList: ";" | X = true; | X = false; | if( Expression ) {..}
ExecFrom(c, p, regs) ==
  IF p > Len(c) THEN [regs |-> regs, ok |-> TRUE]
  ELSE IF c[p].k = ";" THEN ExecFrom(c, p + 1, regs)
  ELSE IF c[p].k = "set" THEN
    ExecFrom(c, p + 1, WriteReg(regs, c[p].b, c[p].i, "true"))
  ELSE IF c[p].k = "reset" THEN
    ExecFrom(c, p + 1, WriteReg(regs, c[p].b, c[p].i, "false"))
  ELSE IF c[p].k = "if(" THEN ExecIf(c, regs, ParseOr(c, p + 1, regs))
  ELSE [regs |-> regs, ok |-> FALSE]

\* the rest of an if statement whose condition parsed as r
ExecIf(c, regs, r) ==
  IF r.ok /\ r.p <= Len(c)
     /\ c[r.p].k \in {"then-set", "then-reset", "then-assign"}
  THEN ExecFrom(c, r.p + 1, ApplyThen(regs, c[r.p], r.v))
  ELSE [regs |-> regs, ok |-> FALSE]

\* the outcome of eval, given the banks before it and the run r of the text
Evaluated(regs, r) ==
  IF r.ok THEN [threw |-> FALSE, regs |-> r.regs]
  ELSE [threw |-> TRUE, regs |-> regs]

\* eval(text): a text that does not parse throws SyntaxError before any
\* statement runs; otherwise the statements run in order on the banks.
Eval(code, regs) == Evaluated(regs, ExecFrom(code, 1, regs))

(* ------------------------------ IL source ------------------------------ *)
\* A fragment of the split source text: its leading non-digit characters
\* and the decimal number that follows them (-1 when no digit follows).
\* "E1" is Part("E", 1), "U" is Part("U", -1), "FOO" is Part("FOO", -1).
Part(txt, num) == [txt |-> txt, num |-> num]

\* String.prototype.toUpperCase on the fragments used here
ToUpperCase(part) ==
  [part EXCEPT !.txt =
     CASE part.txt = "u" -> "U"
       [] part.txt = "e" -> "E"
       [] part.txt = "a" -> "A"
       [] part.txt = "foo" -> "FOO"
       [] OTHER -> part.txt]

validlogicalOperations == {"U", "O", "X", "NOT", "UN", "ON"}

validInstructions == {"=", "S", "R"}

validOperands == {"A", "E", "M"}

validBrackets == {"(", ")"}

\* ^(A|E|M)\d+$
validOperandsRegex(part) == part.txt \in validOperands /\ part.num >= 0

Command(type, part, n) == [type |-> type, instruction |-> part, blockNumber |-> n]

\* the forEach over codeParts: acc carries commandArray, BracketCount,
\* invalidCommand and the number of errorCallback calls
ClassifyPart(acc, codePart) ==
  LET n == Len(acc.commandArray)
  IN IF codePart.num = -1 /\ codePart.txt \in validlogicalOperations THEN
       [acc EXCEPT !.commandArray = Append(@, Command(1, codePart, n))]
     ELSE IF codePart.num = -1 /\ codePart.txt \in validInstructions THEN
       [acc EXCEPT !.commandArray = Append(@, Command(2, codePart, n))]
     ELSE IF validOperandsRegex(codePart) THEN
       [acc EXCEPT !.commandArray = Append(@, Command(3, codePart, n))]
     ELSE IF codePart.num = -1 /\ codePart.txt \in validBrackets THEN
       [acc EXCEPT !.commandArray = Append(@, Command(4, codePart, n)),
                   !.BracketCount = IF codePart.txt = "(" THEN @ + 1 ELSE @ - 1]
     ELSE
       [acc EXCEPT !.errors = @ + 1, !.invalidCommand = TRUE]

RECURSIVE ClassifyAll(_, _, _)
ClassifyAll(acc, codeParts, k) ==
  IF k > Len(codeParts) THEN acc
  ELSE ClassifyAll(ClassifyPart(acc, codeParts[k]), codeParts, k + 1)

\* CodeInput is given as the fragments left by split and filter; the result
\* is null (isNull) or the command array closed by the End of Network entry.
generateCodeStructure(CodeInput) ==
  LET upper == [k \in 1..Len(CodeInput) |-> ToUpperCase(CodeInput[k])]
      acc == ClassifyAll([commandArray |-> <<>>, BracketCount |-> 0,
                          invalidCommand |-> FALSE, errors |-> 0], upper, 1)
      unbalanced == acc.BracketCount # 0
      errors == acc.errors + (IF unbalanced THEN 1 ELSE 0)
  IN IF acc.invalidCommand \/ unbalanced
     THEN [commandArray |-> <<>>, errors |-> errors, isNull |-> TRUE]
     ELSE [commandArray |-> Append(acc.commandArray,
                                   Command(6, Part(";", -1), Len(acc.commandArray))),
           errors |-> errors,
           isNull |-> FALSE]

\* slicedCommand: bank letter and parseInt(digits) - 1
Sliced(k, command) == JsReg(k, command.instruction.txt, command.instruction.num - 1)

Emit(st, pieces) == [st EXCEPT !.JSCode = @ \o pieces]

Report(st) == [st EXCEPT !.errors = @ + 1]

\* one pass of the forEach in generateJSCode, isNewBlock true
NewBlockCommand(st, command) ==
  IF command.type = 1 THEN
    [Emit(st, IF command.instruction.txt = "NOT"
              THEN <<Js("if("), Js("!")>> ELSE <<Js("if(")>>)
       EXCEPT !.openIfBlock = TRUE, !.isNewBlock = FALSE]
  ELSE IF command.type = 2 THEN
    IF command.instruction.txt \in {"S", "R"}
    THEN [st EXCEPT !.lastInstruction = command.instruction.txt,
                    !.isNewBlock = FALSE]
    ELSE Report(st)
  ELSE Report(st)

\* the operand case of the forEach, isNewBlock false
OperandCommand(st, command) ==
  IF st.openIfBlock THEN
    IF st.lastInstruction \in {"S", "R", "="} THEN
      [Emit(st, <<Sliced(CASE st.lastInstruction = "S" -> "then-set"
                           [] st.lastInstruction = "R" -> "then-reset"
                           [] OTHER -> "then-assign", command)>>)
         EXCEPT !.lastInstruction = "", !.openIfBlock = FALSE, !.isNewBlock = TRUE]
    ELSE Emit(st, <<Sliced("ref", command)>>)
  ELSE
    IF st.lastInstruction \in {"S", "R"} THEN
      [Emit(st, <<Sliced(IF st.lastInstruction = "S" THEN "set" ELSE "reset",
                         command)>>)
         EXCEPT !.lastInstruction = "", !.isNewBlock = TRUE]
    ELSE Report(st)

\* a generator that drops the brackets
OpenBlockCommand_dropsBrackets(st, command) ==
  IF command.type = 1 THEN
    Emit(st, CASE command.instruction.txt = "U" -> <<Js("&&")>>
               [] command.instruction.txt = "O" -> <<Js("||")>>
               [] command.instruction.txt = "X" -> <<Js("!==")>>
               [] command.instruction.txt = "NOT" -> <<Js("!")>>
               [] command.instruction.txt = "UN" -> <<Js("&&"), Js("!")>>
               [] command.instruction.txt = "ON" -> <<Js("||"), Js("!")>>)
  ELSE IF command.type = 2 THEN
    [st EXCEPT !.lastInstruction = command.instruction.txt]
  ELSE IF command.type = 3 THEN OperandCommand(st, command)
  ELSE st

\* one pass of the forEach in generateJSCode, isNewBlock false
OpenBlockCommand(st, command) ==
  IF command.type = 1 THEN
    Emit(st, CASE command.instruction.txt = "U" -> <<Js("&&")>>
               [] command.instruction.txt = "O" -> <<Js("||")>>
               [] command.instruction.txt = "X" -> <<Js("!==")>>
               [] command.instruction.txt = "NOT" -> <<Js("!")>>
               [] command.instruction.txt = "UN" -> <<Js("&&"), Js("!")>>
               [] command.instruction.txt = "ON" -> <<Js("||"), Js("!")>>)
  ELSE IF command.type = 2 THEN
    [st EXCEPT !.lastInstruction = command.instruction.txt]
  ELSE IF command.type = 3 THEN OperandCommand(st, command)
  ELSE IF st.openIfBlock THEN Emit(st, <<Js(command.instruction.txt)>>)
  ELSE st

CompileCommand(st, command) ==
  IF command.type = 6 THEN Emit(st, <<Js(";")>>)
  ELSE IF st.isNewBlock THEN NewBlockCommand(st, command)
  ELSE OpenBlockCommand(st, command)

RECURSIVE CompileAll(_, _, _)
CompileAll(st, commandArray, k) ==
  IF k > Len(commandArray) THEN st
  ELSE CompileAll(CompileCommand(st, commandArray[k]), commandArray, k + 1)

\* returns the generated text and the number of errorCallback calls
generateJSCode(commandArray) ==
  LET st == CompileAll([errors |-> 0, JSCode |-> <<>>,
                        openIfBlock |-> FALSE, isNewBlock |-> TRUE,
                        lastInstruction |-> ""], commandArray, 1)
  IN [errors |-> st.errors, JSCode |-> st.JSCode]

(* ---------------------------- the SPS object --------------------------- *)
VARIABLES
  state,            \* #state: 0 stopped, 1 running, 2 paused
  dataReady,        \* #dataReady, the field dataAvailable() returns
  dataReadyProp,    \* the public property this.dataReady ("undefined" until set)
  runtimeTimer,     \* #runtimeTimer: "undefined" or the interval handle
  intervals,        \* the intervals the host has armed
  E, A, M,          \* #E, #A, #M
  RuntimeCounter,   \* #RuntimeCounter
  SPSCode,          \* #SPSCode (the undefined of a fresh object evaluates as "")
  lastOp,           \* the call or callback that ran last
  ret,              \* what it returned or threw
  arg,              \* the argument of the last setInputs / setFlags / loadCode
  errors,           \* errorCallback invocations of the last loadCode
  scansRun,         \* how often the last call ran #SPSRuntime
  reported,         \* errorCallback invocations of the last loadCode, per network
  scannedSinceSet,  \* history: a scan completed since the last setInputs/setFlags
  scansSinceStop,   \* history: #SPSRuntime invocations since the last stop
  loaded,           \* history: the input of the last loadCode, if it returned 0
  round             \* history: progress through load P, set I, scan, load P, set I, scan

vars == <<state, dataReady, dataReadyProp, runtimeTimer, intervals, E, A, M,
          RuntimeCounter, SPSCode, lastOp, ret, arg, errors, scansRun,
          reported, scannedSinceSet, scansSinceStop, loaded, round>>

NoArg == <<>>

\* the empty array of networks, which loadCode never accepts
NoSource == [isArray |-> TRUE, text |-> <<>>, networks |-> <<>>]

\* no step of the round load P, set I, scan, load P, set I, scan taken
NoRound == [A |-> <<>>, M |-> <<>>, phase |-> 0, I |-> <<>>]

\* the three observers
getState == state

getRuntimeCounter == RuntimeCounter

dataAvailable == dataReady

Init ==
  /\ state = 0
  /\ dataReady = FALSE
  /\ dataReadyProp = "undefined"
  /\ runtimeTimer = "undefined"
  /\ intervals = {}
  /\ E = NewArray(NumInputs)
  /\ A = NewArray(NumOutputs)
  /\ M = NewArray(NumFlags)
  /\ RuntimeCounter = 0
  /\ SPSCode = <<>>
  /\ lastOp = "new"
  /\ ret = "0"
  /\ arg = NoArg
  /\ errors = 0
  /\ scansRun = 0
  /\ reported = <<>>
  /\ scannedSinceSet = FALSE
  /\ scansSinceStop = 0
  /\ loaded = NoSource
  /\ round = NoRound

\* variant: the counter is stepped after eval, so a throwing scan is not counted
AfterEval_countsLast(counter, prop, r) ==
  [threw |-> r.threw,
   regs |-> r.regs,
   dataReadyProp |-> IF r.threw THEN prop ELSE "true",
   RuntimeCounter |-> IF r.threw THEN counter ELSE counter + 1]

\* what #SPSRuntime leaves behind when its eval ended as r
AfterEval(counter, prop, r) ==
  [threw |-> r.threw,
   regs |-> r.regs,
   dataReadyProp |-> IF r.threw THEN prop ELSE "true",
   RuntimeCounter |-> counter + 1]

\* #SPSRuntime: count, evaluate the program, then mark this.dataReady
SPSRuntime(counter, code, regs, prop) == AfterEval(counter, prop, Eval(code, regs))

\* variant: case 0 clears the interval but keeps the counter
changeSPSState_keepsCounter(newState, timer, armed, counter) ==
  CASE newState = 1 ->
         IF timer # "undefined"
         THEN [runtimeTimer |-> "interval", intervals |-> armed \cup {"interval"},
               RuntimeCounter |-> counter]
         ELSE [runtimeTimer |-> timer, intervals |-> armed, RuntimeCounter |-> counter]
    [] OTHER ->
         [runtimeTimer |-> timer, intervals |-> armed \ {timer}, RuntimeCounter |-> counter]

\* #changeSPSState
changeSPSState(newState, timer, armed, counter) ==
  CASE newState = 0 ->
         [runtimeTimer |-> timer, intervals |-> armed \ {timer}, RuntimeCounter |-> 0]
    [] newState = 1 ->
         IF timer # "undefined"
         THEN [runtimeTimer |-> "interval", intervals |-> armed \cup {"interval"},
               RuntimeCounter |-> counter]
         ELSE [runtimeTimer |-> timer, intervals |-> armed, RuntimeCounter |-> counter]
    [] newState = 2 ->
         [runtimeTimer |-> timer, intervals |-> armed \ {timer}, RuntimeCounter |-> counter]

\* the round after the call op with argument a that returned r and ran n
\* scans; a scan's Output and Flag banks are taken from the state it leaves
RoundAfter(op, r, a, n) ==
  IF op = "loadCode" /\ r = "0" THEN
    IF round.phase = 3 /\ a = loaded THEN [round EXCEPT !.phase = 4]
    ELSE [NoRound EXCEPT !.phase = 1]
  ELSE IF op = "setInputs" /\ round.phase = 1 THEN
    [round EXCEPT !.phase = 2, !.I = a]
  ELSE IF op = "setInputs" /\ round.phase = 4 /\ a = round.I THEN
    [round EXCEPT !.phase = 5]
  ELSE IF n = 1 /\ round.phase = 2 THEN
    [round EXCEPT !.phase = 3, !.A = A', !.M = M']
  ELSE IF n = 1 /\ round.phase = 5 THEN
    [round EXCEPT !.phase = 6]
  ELSE NoRound

\* bookkeeping of a call: what ran, what it returned, its argument, the
\* errorCallback calls (in all and per network) and the scans it ran
CallRecord(op, r, a, e, n, perNetwork) ==
  /\ lastOp' = op
  /\ ret' = r
  /\ arg' = a
  /\ errors' = e
  /\ scansRun' = n
  /\ reported' = perNetwork
  /\ loaded' = IF op = "loadCode" THEN (IF r = "0" THEN a ELSE NoSource) ELSE loaded
  /\ round' = RoundAfter(op, r, a, n)

Called(op, r, a, e, n) == CallRecord(op, r, a, e, n, <<>>)

Banks == [E |-> E, A |-> A, M |-> M]

\* the state after an invocation of #SPSRuntime that ended as r; the call
\* op returns (or throws) what r tells
Scanned(op, normal, r) ==
  /\ RuntimeCounter' = r.RuntimeCounter
  /\ E' = r.regs.E
  /\ A' = r.regs.A
  /\ M' = r.regs.M
  /\ dataReadyProp' = r.dataReadyProp
  /\ scannedSinceSet' = (scannedSinceSet \/ ~r.threw)
  /\ scansSinceStop' = scansSinceStop + 1
  /\ Called(op, IF r.threw THEN "SyntaxError" ELSE normal, NoArg, 0, 1)

\* one invocation of #SPSRuntime as part of the call op
RunScan(op, normal) ==
  Scanned(op, normal, SPSRuntime(RuntimeCounter, SPSCode, Banks, dataReadyProp))

start ==
  IF state = 1
  THEN /\ Called("start", "-1", NoArg, 0, 0)
       /\ UNCHANGED <<state, dataReady, dataReadyProp, runtimeTimer, intervals,
                      E, A, M, RuntimeCounter, SPSCode, scannedSinceSet,
                      scansSinceStop>>
  ELSE LET c == changeSPSState(1, runtimeTimer, intervals, RuntimeCounter)
       IN /\ state' = 1
          /\ runtimeTimer' = c.runtimeTimer
          /\ intervals' = c.intervals
          /\ RuntimeCounter' = c.RuntimeCounter
          /\ Called("start", "0", NoArg, 0, 0)
          /\ UNCHANGED <<dataReady, dataReadyProp, E, A, M, SPSCode,
                         scannedSinceSet, scansSinceStop>>

stop ==
  IF state = 0
  THEN /\ Called("stop", "-1", NoArg, 0, 0)
       /\ UNCHANGED <<state, dataReady, dataReadyProp, runtimeTimer, intervals,
                      E, A, M, RuntimeCounter, SPSCode, scannedSinceSet,
                      scansSinceStop>>
  ELSE LET c == changeSPSState(0, runtimeTimer, intervals, RuntimeCounter)
       IN /\ state' = 0
          /\ E' = Fill0(E)
          /\ A' = Fill0(A)
          /\ M' = Fill0(M)
          /\ runtimeTimer' = c.runtimeTimer
          /\ intervals' = c.intervals
          /\ RuntimeCounter' = c.RuntimeCounter
          /\ scansSinceStop' = 0
          /\ Called("stop", "0", NoArg, 0, 0)
          /\ UNCHANGED <<dataReady, dataReadyProp, SPSCode, scannedSinceSet>>

pause ==
  IF state = 2
  THEN /\ Called("pause", "-1", NoArg, 0, 0)
       /\ UNCHANGED <<state, dataReady, dataReadyProp, runtimeTimer, intervals,
                      E, A, M, RuntimeCounter, SPSCode, scannedSinceSet,
                      scansSinceStop>>
  ELSE LET c == changeSPSState(2, runtimeTimer, intervals, RuntimeCounter)
       IN /\ state' = 2
          /\ runtimeTimer' = c.runtimeTimer
          /\ intervals' = c.intervals
          /\ RuntimeCounter' = c.RuntimeCounter
          /\ Called("pause", "0", NoArg, 0, 0)
          /\ UNCHANGED <<dataReady, dataReadyProp, E, A, M, SPSCode,
                         scannedSinceSet, scansSinceStop>>

\* the arrays callers pass: one 0 or 1 per register
InputArrays == [0..(NumInputs - 1) -> {"0", "1"}]

FlagArrays == [0..(NumFlags - 1) -> {"0", "1"}]

FromArray(bank, array) ==
  [j \in DOMAIN bank |->
     IF j < 0 THEN bank[j]
     ELSE IF j \in DOMAIN array THEN array[j] ELSE "undefined"]

setInputs(inputs) ==
  /\ dataReady' = FALSE
  /\ E' = FromArray(E, inputs)
  /\ scannedSinceSet' = FALSE
  /\ Called("setInputs", "0", inputs, 0, 0)
  /\ UNCHANGED <<state, dataReadyProp, runtimeTimer, intervals, A, M,
                 RuntimeCounter, SPSCode, scansSinceStop>>

\* "dataReady = false" assigns to an undeclared identifier in strict code
\* (class bodies and modules are strict): ReferenceError, before the loop.
setFlags(flags) ==
  /\ scannedSinceSet' = FALSE
  /\ Called("setFlags", "ReferenceError", flags, 0, 0)
  /\ UNCHANGED <<state, dataReady, dataReadyProp, runtimeTimer, intervals,
                 E, A, M, RuntimeCounter, SPSCode, scansSinceStop>>

\* what getOutputs does once its test has passed or failed
CatchUp(stale) ==
  IF stale
  THEN /\ RuntimeCounter < MaxCounter
       /\ RunScan("getOutputs", "array")
       /\ UNCHANGED <<state, dataReady, runtimeTimer, intervals, SPSCode>>
  ELSE /\ Called("getOutputs", "array", NoArg, 0, 0)
       /\ UNCHANGED <<state, dataReady, dataReadyProp, runtimeTimer, intervals,
                      E, A, M, RuntimeCounter, SPSCode, scannedSinceSet,
                      scansSinceStop>>

\* variant: the catch-up scan does not look at the run state
getOutputs_anyState == CatchUp(~dataReady)

\* variant: the catch-up scan only excludes Stopped
getOutputs_notStopped == CatchUp(~dataReady /\ state # 0)

getOutputs == CatchUp(~dataReady /\ state = 1)

\* SPSCycleTime ms pass: the host calls #SPSRuntime once per armed interval
CycleElapsed ==
  IF intervals # {}
  THEN /\ RuntimeCounter < MaxCounter
       /\ RunScan("timer", "undefined")
       /\ UNCHANGED <<state, dataReady, runtimeTimer, intervals, SPSCode>>
  ELSE /\ Called("timer", "undefined", NoArg, 0, 0)
       /\ UNCHANGED <<state, dataReady, dataReadyProp, runtimeTimer, intervals,
                      E, A, M, RuntimeCounter, SPSCode, scannedSinceSet,
                      scansSinceStop>>

(* ------------------------------ loadCode ------------------------------- *)
\* the flatMap over an array of networks: concatenated command arrays,
\* invalidCommand, and the errorCallback calls made on the way
RECURSIVE FlatMapNetworks(_, _, _)
FlatMapNetworks(acc, codeInput, k) ==
  IF k > Len(codeInput) THEN acc
  ELSE LET r == generateCodeStructure(codeInput[k])
       IN FlatMapNetworks(
            [invalidCommand |-> acc.invalidCommand \/ r.isNull,
             errors |-> acc.errors + r.errors,
             codeArray |-> IF r.isNull THEN acc.codeArray
                           ELSE acc.codeArray \o r.commandArray,
             reported |-> Append(acc.reported, r.errors)],
            codeInput, k + 1)

\* variant: the failure branch leaves #SPSCode as it is
LoadResult_keepsProgram(ImputCode) ==
  LET single == generateCodeStructure(ImputCode.text)
      multi == FlatMapNetworks([invalidCommand |-> FALSE, errors |-> 0,
                                codeArray |-> <<>>, reported |-> <<>>],
                               ImputCode.networks, 1)
      reports == IF ImputCode.isArray THEN multi.reported ELSE <<single.errors>>
      isNull == IF ImputCode.isArray THEN FALSE ELSE single.isNull
      codeArray == IF ImputCode.isArray THEN multi.codeArray ELSE single.commandArray
      invalidCommand == IF ImputCode.isArray THEN multi.invalidCommand ELSE FALSE
      lexErrors == IF ImputCode.isArray THEN multi.errors ELSE single.errors
      js == generateJSCode(codeArray)
  IN IF ~isNull /\ Len(codeArray) > 0 /\ ~invalidCommand
     THEN [errors |-> lexErrors + js.errors, reported |-> reports,
           ret |-> "0", SPSCode |-> js.JSCode]
     ELSE [errors |-> lexErrors, reported |-> reports,
           ret |-> "-1", SPSCode |-> SPSCode]

\* variant: a network that failed no longer fails the load
LoadResult_ignoresInvalidCommand(ImputCode) ==
  LET single == generateCodeStructure(ImputCode.text)
      multi == FlatMapNetworks([invalidCommand |-> FALSE, errors |-> 0,
                                codeArray |-> <<>>, reported |-> <<>>],
                               ImputCode.networks, 1)
      reports == IF ImputCode.isArray THEN multi.reported ELSE <<single.errors>>
      isNull == IF ImputCode.isArray THEN FALSE ELSE single.isNull
      codeArray == IF ImputCode.isArray THEN multi.codeArray ELSE single.commandArray
      lexErrors == IF ImputCode.isArray THEN multi.errors ELSE single.errors
      js == generateJSCode(codeArray)
  IN IF ~isNull /\ Len(codeArray) > 0
     THEN [errors |-> lexErrors + js.errors, reported |-> reports,
           ret |-> "0", SPSCode |-> js.JSCode]
     ELSE [errors |-> lexErrors, reported |-> reports,
           ret |-> "-1", SPSCode |-> <<>>]

\* variant: the networks are compiled last to first
LoadResult_lastNetworkFirst(ImputCode) ==
  LET single == generateCodeStructure(ImputCode.text)
      multi == FlatMapNetworks([invalidCommand |-> FALSE, errors |-> 0,
                                codeArray |-> <<>>, reported |-> <<>>],
                               [k \in DOMAIN ImputCode.networks |->
                                  ImputCode.networks[Len(ImputCode.networks) + 1 - k]],
                               1)
      reports == IF ImputCode.isArray THEN multi.reported ELSE <<single.errors>>
      isNull == IF ImputCode.isArray THEN FALSE ELSE single.isNull
      codeArray == IF ImputCode.isArray THEN multi.codeArray ELSE single.commandArray
      invalidCommand == IF ImputCode.isArray THEN multi.invalidCommand ELSE FALSE
      lexErrors == IF ImputCode.isArray THEN multi.errors ELSE single.errors
      js == generateJSCode(codeArray)
  IN IF ~isNull /\ Len(codeArray) > 0 /\ ~invalidCommand
     THEN [errors |-> lexErrors + js.errors, reported |-> reports,
           ret |-> "0", SPSCode |-> js.JSCode]
     ELSE [errors |-> lexErrors, reported |-> reports,
           ret |-> "-1", SPSCode |-> <<>>]

\* the value loadCode computes: the return value, the text it stores in
\* #SPSCode and the number of errorCallback calls (reported: those made by
\* generateCodeStructure, network by network)
LoadResult(ImputCode) ==
  LET single == generateCodeStructure(ImputCode.text)
      multi == FlatMapNetworks([invalidCommand |-> FALSE, errors |-> 0,
                                codeArray |-> <<>>, reported |-> <<>>],
                               ImputCode.networks, 1)
      reports == IF ImputCode.isArray THEN multi.reported ELSE <<single.errors>>
      isNull == IF ImputCode.isArray THEN FALSE ELSE single.isNull
      codeArray == IF ImputCode.isArray THEN multi.codeArray ELSE single.commandArray
      invalidCommand == IF ImputCode.isArray THEN multi.invalidCommand ELSE FALSE
      lexErrors == IF ImputCode.isArray THEN multi.errors ELSE single.errors
      js == generateJSCode(codeArray)
  IN IF ~isNull /\ Len(codeArray) > 0 /\ ~invalidCommand
     THEN [errors |-> lexErrors + js.errors, reported |-> reports,
           ret |-> "0", SPSCode |-> js.JSCode]
     ELSE [errors |-> lexErrors, reported |-> reports,
           ret |-> "-1", SPSCode |-> <<>>]

\* the state after a loadCode of ImputCode that computed r
Loaded(ImputCode, r) ==
  /\ SPSCode' = r.SPSCode
  /\ CallRecord("loadCode", r.ret, ImputCode, r.errors, 0, r.reported)
  /\ UNCHANGED <<state, dataReady, dataReadyProp, runtimeTimer, intervals,
                 E, A, M, RuntimeCounter, scannedSinceSet, scansSinceStop>>

loadCode(ImputCode) == Loaded(ImputCode, LoadResult(ImputCode))

(* ----------------------------- the sources ----------------------------- *)
Kw(txt) == Part(txt, -1)

\* U E1 = A1
NetAssign == <<Kw("U"), Part("E", 1), Kw("="), Part("A", 1)>>

\* U E1 S M1 U M1 UN E2 = A1
NetLatch == <<Kw("U"), Part("E", 1), Kw("S"), Part("M", 1),
              Kw("U"), Part("M", 1), Kw("UN"), Part("E", 2), Kw("="), Part("A", 1)>>

\* U E2 R M1
NetReset == <<Kw("U"), Part("E", 2), Kw("R"), Part("M", 1)>>

\* S A1
NetSet == <<Kw("S"), Part("A", 1)>>

\* u e1 = a1
NetLower == <<Kw("u"), Part("e", 1), Kw("="), Part("a", 1)>>

\* U ( E1
NetUnbalanced == <<Kw("U"), Kw("("), Part("E", 1)>>

\* U E1 FOO
NetUnknown == <<Kw("U"), Part("E", 1), Kw("FOO")>>

\* = A1
NetBareAssign == <<Kw("="), Part("A", 1)>>

\* ( E1 ) = A1
NetBracketFirst == <<Kw("("), Part("E", 1), Kw(")"), Kw("="), Part("A", 1)>>

\* S = A1
NetStrayOperand == <<Kw("S"), Kw("="), Part("A", 1)>>

\* U E1
NetIncomplete == <<Kw("U"), Part("E", 1)>>

\* U E1 =
NetPending == <<Kw("U"), Part("E", 1), Kw("=")>>

\* S
NetOnlySet == <<Kw("S")>>

\* A1
NetOnlyOperand == <<Part("A", 1)>>

\* U E1 FOO BAR
NetTwoUnknown == <<Kw("U"), Part("E", 1), Kw("FOO"), Kw("BAR")>>

\* = A1 U E1 = A1
NetAfterError == <<Kw("="), Part("A", 1),
                   Kw("U"), Part("E", 1), Kw("="), Part("A", 1)>>

Text(net) == [isArray |-> FALSE, text |-> net, networks |-> <<>>]

Networks(nets) == [isArray |-> TRUE, text |-> <<>>, networks |-> nets]

Sources ==
  {Text(NetAssign), Text(NetLatch), Text(NetSet), Text(NetLower),
   Text(NetUnbalanced), Text(NetUnknown), Text(NetBareAssign),
   Text(NetBracketFirst), Text(NetStrayOperand), Text(NetIncomplete),
   Text(<<>>),
   Networks(<<NetAssign, NetReset>>), Networks(<<NetLatch, NetReset>>),
   Networks(<<NetAssign, NetUnbalanced>>), Networks(<<>>),
   Networks(<<NetAssign, NetUnbalanced, NetUnknown>>),
   Text(NetPending), Text(NetOnlySet), Networks(<<NetOnlySet, NetOnlyOperand>>),
   Text(NetTwoUnknown), Text(NetAfterError)}

\* <keyword> <operand> ... = A1, a single statement over the inputs E1, E2
Chain1(kw) == <<Kw(kw), Part("E", 1), Kw("="), Part("A", 1)>>

Chain2(kw1, kw2) ==
  <<Kw(kw1), Part("E", 1), Kw(kw2), Part("E", 2), Kw("="), Part("A", 1)>>

ChainSources ==
  {Text(Chain1(kw)) : kw \in {"U", "O", "UN", "ON", "NOT"}}
    \cup {Text(Chain2("U", kw)) : kw \in {"U", "O", "X", "UN", "ON"}}
    \cup {Text(Chain2("UN", "O")), Text(Chain2("O", "X"))}

\* U E1 = A1 UN E2 S A2
NetBasic == <<Kw("U"), Part("E", 1), Kw("="), Part("A", 1),
              Kw("UN"), Part("E", 2), Kw("S"), Part("A", 2)>>

\* UN E2 R A1
NetUNReset == <<Kw("UN"), Part("E", 2), Kw("R"), Part("A", 1)>>

ExampleSources == {Text(NetBasic), Networks(<<NetAssign, NetUNReset>>)}

\* U E1 S A1 U E2 R A1
NetSetReset == <<Kw("U"), Part("E", 1), Kw("S"), Part("A", 1),
                 Kw("U"), Part("E", 2), Kw("R"), Part("A", 1)>>

LatchSources == {Text(NetSetReset)}

\* U E1 = M1
NetToFlag == <<Kw("U"), Part("E", 1), Kw("="), Part("M", 1)>>

\* U M1 = A1
NetFromFlag == <<Kw("U"), Part("M", 1), Kw("="), Part("A", 1)>>

RelaySources == {Networks(<<NetToFlag, NetFromFlag>>)}

\* U E1 UN A1 = A1
NetToggle == <<Kw("U"), Part("E", 1), Kw("UN"), Part("A", 1), Kw("="), Part("A", 1)>>

FeedbackSources == {Text(NetToggle)}

\* U E1 = E2
NetToInput == <<Kw("U"), Part("E", 1), Kw("="), Part("E", 2)>>

\* U E1 = A<n>, n one more than the number of outputs
NetBeyond == <<Kw("U"), Part("E", 1), Kw("="), Part("A", NumOutputs + 1)>>

\* U E1 = A0
NetZeroth == <<Kw("U"), Part("E", 1), Kw("="), Part("A", 0)>>

RegisterSources == {Text(NetToInput), Text(NetBeyond), Text(NetZeroth)}

\* U E2 = A1 U A1 X E1 = A2
NetXorMixed == <<Kw("U"), Part("E", 2), Kw("="), Part("A", 1),
                 Kw("U"), Part("A", 1), Kw("X"), Part("E", 1),
                 Kw("="), Part("A", 2)>>

XorSources == {Text(NetXorMixed)}

\* U E1 O E2 U E3 = A1
NetOrAnd == <<Kw("U"), Part("E", 1), Kw("O"), Part("E", 2),
               Kw("U"), Part("E", 3), Kw("="), Part("A", 1)>>

\* U ( E1 O E2 ) U E3 = A1
NetBracketed == <<Kw("U"), Kw("("), Part("E", 1), Kw("O"), Part("E", 2),
                   Kw(")"), Kw("U"), Part("E", 3), Kw("="), Part("A", 1)>>

PrecedenceSources == {Text(NetOrAnd), Text(NetBracketed)}

\* the programs whose scans are studied: latches, relays, feedback, registers
LogicSources ==
  ExampleSources \cup LatchSources \cup RelaySources
    \cup FeedbackSources \cup RegisterSources

\* the programs of one logic chain that writes an output
ChainPrograms == ChainSources \cup XorSources \cup PrecedenceSources

(* --------------------------- the specification ------------------------- *)
Next ==
  \/ start
  \/ stop
  \/ pause
  \/ \E inputs \in InputArrays : setInputs(inputs)
  \/ \E flags \in FlagArrays : setFlags(flags)
  \/ getOutputs
  \/ CycleElapsed
  \/ \E ImputCode \in Sources : loadCode(ImputCode)

Spec == Init /\ [][Next]_vars

\* the calls that matter to what a scan computes
NextLogic ==
  \/ start
  \/ stop
  \/ \E inputs \in InputArrays : setInputs(inputs)
  \/ getOutputs
  \/ \E ImputCode \in LogicSources : loadCode(ImputCode)

SpecLogic == Init /\ [][NextLogic]_vars

\* the same calls over the logic chains
NextChains ==
  \/ start
  \/ stop
  \/ \E inputs \in InputArrays : setInputs(inputs)
  \/ getOutputs
  \/ \E ImputCode \in ChainPrograms : loadCode(ImputCode)

SpecChains == Init /\ [][NextChains]_vars

(* ------------------------------ properties ----------------------------- *)
Zeroed(bank) == \A j \in DOMAIN bank : j >= 0 => bank[j] = "0"

\* C1 (as claimed): once start() has succeeded and while the state is Running,
\* the periodic scheduler is armed, so that timer ticks run scans.
C1_RunningIsScheduled == state = 1 => intervals # {}

\* C2 (as claimed): the run state moves only along Stopped->Running,
\* Paused->Running, Running->Paused, Running->Stopped and Paused->Stopped;
\* start while Running, stop while Stopped and pause while Paused return -1
\* and change neither state, registers nor counter.
C2_OnlyListedTransitions ==
  [][/\ state' # state =>
          <<state, state'>> \in {<<0, 1>>, <<2, 1>>, <<1, 2>>, <<1, 0>>, <<2, 0>>}
     /\ (\/ lastOp' = "start" /\ state = 1
         \/ lastOp' = "stop" /\ state = 0
         \/ lastOp' = "pause" /\ state = 2)
          => ret' = "-1" /\ UNCHANGED <<state, E, A, M, RuntimeCounter>>]_vars

\* C3: every stop() called in Running or Paused succeeds and leaves the state
\* Stopped, every Input, Output and Flag register 0 and the scan counter 0.
C3_StopClearsEverything ==
  [][(lastOp' = "stop" /\ state # 0) =>
       /\ ret' = "0"
       /\ state' = 0
       /\ Zeroed(E') /\ Zeroed(A') /\ Zeroed(M')
       /\ RuntimeCounter' = 0]_vars

\* C3 witness: a successful stop after a scan had completed and the counter
\* had run; the banks and the counter are back at zero
C3_Witness ==
  /\ lastOp = "stop" /\ ret = "0" /\ state = 0
  /\ dataReadyProp = "true"
  /\ RuntimeCounter = 0

\* C4: no call or callback that ends in Stopped or Paused runs a scan: the
\* counter does not grow and Output and Flag are written only by stop's
\* zeroing; pause() changes no bank and not the counter.
C4_NoScanUnlessRunning ==
  [][/\ state' # 1 =>
          /\ scansRun' = 0
          /\ RuntimeCounter' <= RuntimeCounter
          /\ (lastOp' = "stop" /\ ret' = "0") \/ (A' = A /\ M' = M)
     /\ lastOp' = "pause" => UNCHANGED <<E, A, M, RuntimeCounter>>]_vars

\* C4 witness: getOutputs() on a paused controller with stale data, a loaded
\* program whose scan would change Output, and earlier scans: no scan ran
C4_Witness ==
  /\ state = 2 /\ lastOp = "getOutputs" /\ scansRun = 0
  /\ ~dataReady /\ RuntimeCounter > 0
  /\ Eval(SPSCode, Banks).regs.A # A

\* C5 (as claimed): dataAvailable() is true exactly when a scan has completed
\* since the most recent setInputs/setFlags call.
C5_FreshnessTracksScans == dataAvailable = scannedSinceSet

C7_SetFlagsOverwrites ==
  lastOp = "setFlags" =>
    /\ ret = "0"
    /\ \A j \in DOMAIN M : j >= 0 => M[j] = arg[j]
    /\ ~dataAvailable

\* C8: the counter equals the number of #SPSRuntime invocations since the
\* last successful stop (or since construction); a scan adds exactly one,
\* only stop resets it, and no other call changes it.
C8_CounterCountsScans ==
  /\ [](getRuntimeCounter = scansSinceStop)
  /\ [][/\ scansRun' = 1 => RuntimeCounter' = RuntimeCounter + 1
        /\ (scansRun' = 0 /\ ~(lastOp' = "stop" /\ ret' = "0"))
             => RuntimeCounter' = RuntimeCounter
        /\ (lastOp' = "stop" /\ ret' = "0") => RuntimeCounter' = 0]_vars

\* C8 witness: two scans counted, the last one of a program that throws
C8_Witness ==
  /\ RuntimeCounter = 2 /\ scansRun = 1 /\ ret = "SyntaxError"

\* C9 (as claimed): a load during which errorCallback was invoked returns -1
\* and installs nothing.
C9_ReportedErrorFailsLoad ==
  (lastOp = "loadCode" /\ errors > 0) => (ret = "-1" /\ SPSCode = <<>>)

\* C10 (as claimed): a failed loadCode leaves the installed program as it was.
C10_FailedLoadKeepsProgram ==
  [][(lastOp' = "loadCode" /\ ret' = "-1") => SPSCode' = SPSCode]_vars

\* C10 (amended): unbalanced brackets and unknown tokens fail the load, and a
\* failed loadCode leaves the empty program installed, so that scans after it
\* run no statement and leave all three banks as they are.
C10_FailedLoadClearsProgram ==
  /\ [](/\ LoadResult(Text(NetUnbalanced)).ret = "-1"
        /\ LoadResult(Text(NetUnknown)).ret = "-1"
        /\ (lastOp = "loadCode" /\ ret = "-1") => SPSCode = <<>>)
  /\ [][(scansRun' = 1 /\ SPSCode = <<>>) => UNCHANGED <<E, A, M>>]_vars

\* C10 witness: a scan has run on the empty program that a failed load left
\* behind, after an earlier program had set Output A1
C10_Witness ==
  /\ SPSCode = <<>> /\ lastOp = "getOutputs" /\ scansRun = 1
  /\ A[0] = "true" /\ E[0] = "0"

\* the networks of an array passed to loadCode that generateCodeStructure
\* turns down
FailingNetworks(ImputCode) ==
  {k \in DOMAIN ImputCode.networks :
     generateCodeStructure(ImputCode.networks[k]).isNull}

\* C11: when loadCode is given an array of networks of which at least one
\* fails lexical validation, it returns -1, errorCallback has been called at
\* least once for every failing network, and nothing of the valid networks
\* is installed (#SPSCode is empty).
C11_EveryFailingNetworkReported ==
  (lastOp = "loadCode" /\ arg.isArray /\ FailingNetworks(arg) # {}) =>
     /\ ret = "-1"
     /\ SPSCode = <<>>
     /\ Len(reported) = Len(arg.networks)
     /\ \A k \in FailingNetworks(arg) : reported[k] >= 1

C11_Witness ==
  /\ lastOp = "loadCode"
  /\ arg = Networks(<<NetAssign, NetUnbalanced, NetUnknown>>)
  /\ FailingNetworks(arg) = {2, 3}
  /\ reported = <<0, 1, 1>>
  /\ ret = "-1"
  /\ SPSCode = <<>>

\* the truth value of the register an operand names
Holds(regs, operand) == Truthy(ReadReg(regs, operand.txt, operand.num - 1))

\* README, Logical Operations: what a keyword makes of the result so far
\* and the operand that follows it
Documented(kw, result, v) ==
  CASE kw = "U" -> result /\ v
    [] kw = "O" -> result \/ v
    [] kw = "X" -> result # v
    [] kw = "NOT" -> ~v
    [] kw = "UN" -> result /\ ~v
    [] kw = "ON" -> result \/ ~v

\* the result of the chain text[p], text[p+1], ... up to the instruction;
\* before the first keyword the result is the neutral value of its
\* operation, so that a first U, O or X yields its operand and a first NOT,
\* UN or ON the negation of its operand
RECURSIVE DocumentedFrom(_, _, _, _)
DocumentedFrom(text, p, result, regs) ==
  IF p + 1 > Len(text) \/ text[p].txt \notin validlogicalOperations THEN result
  ELSE DocumentedFrom(text, p + 2,
                      Documented(text[p].txt, result, Holds(regs, text[p + 1])),
                      regs)

DocumentedChain(text, regs) ==
  DocumentedFrom(text, 1, text[1].txt \in {"U", "UN", "NOT"}, regs)

\* C12 (as claimed): after a scan of a single statement <chain> = A1, A1 holds
\* the documented truth-table value of the chain over the operands' values
\* (U = AND, O = OR, X = XOR, NOT = negation, UN = AND-NOT, ON = OR-NOT),
\* also when the first keyword of the statement is a negating one.
C12_DocumentedTruthTable ==
  (scansRun = 1 /\ loaded \in ChainSources) =>
     /\ ret # "SyntaxError"
     /\ A[0] = (IF DocumentedChain(loaded.text, Banks) THEN "true" ELSE "false")

\* C13 (as claimed): a condition that starts with UN <operand> is the
\* negation of the operand. From zeroed Output and Flag banks, one scan of
\* "U E1 = A1 UN E2 S A2" with Inputs [1,0] leaves A1 and A2 true, and one
\* scan of the networks ["U E1 = A1", "UN E2 R A1"] with Inputs [1,1]
\* leaves A1 true.
C13_LeadingUNNegates ==
  [][(scansRun' = 1 /\ Zeroed(A) /\ Zeroed(M) /\ E[0] = "1") =>
       /\ (loaded = Text(NetBasic) /\ E[1] = "0") =>
             (A'[0] = "true" /\ A'[1] = "true")
       /\ (loaded = Networks(<<NetAssign, NetUNReset>>) /\ E[1] = "1") =>
             A'[0] = "true"]_vars

\* the if statement whose condition parsed as r: what follows ") {" and the
\* value of the condition
Guarded(code, r) ==
  IF r.ok /\ r.p <= Len(code) THEN [v |-> r.v, t |-> code[r.p]]
  ELSE [v |-> "undefined", t |-> Js("none")]

\* the if statement that starts at piece p of the text
Guard(code, p, regs) == Guarded(code, ParseOr(code, p + 1, regs))

IfPositions(code) == {p \in DOMAIN code : code[p].k = "if("}

\* the conditions of the text read Input registers only, and no statement
\* writes one: every condition has the same value throughout a scan
ReadsOnlyInputs(code) ==
  \A p \in DOMAIN code :
     /\ code[p].k = "ref" => code[p].b = "E"
     /\ code[p].k \in {"then-set", "then-reset", "then-assign", "set", "reset"}
          => code[p].b # "E"

\* some statement of the text writes register b[i], and all that do are
\* conditional S or R statements whose condition is false
OnlyFalseSetReset(code, regs, b, i) ==
  /\ \E p \in IfPositions(code) :
        Guard(code, p, regs).t = JsReg(Guard(code, p, regs).t.k, b, i)
  /\ \A p \in IfPositions(code) :
        Guard(code, p, regs).t = JsReg(Guard(code, p, regs).t.k, b, i) =>
          /\ Guard(code, p, regs).t.k \in {"then-set", "then-reset"}
          /\ ~Truthy(Guard(code, p, regs).v)
  /\ \A p \in DOMAIN code :
        code[p].k \in {"set", "reset"} => code[p] # JsReg(code[p].k, b, i)

\* C14: a scan leaves the target of a conditional S or R statement exactly
\* as it was whenever the statement's condition is false, in every scan of
\* every run (so also in repeated scans with a constantly false condition).
C14_FalseConditionKeepsTarget ==
  [][(scansRun' = 1 /\ ret' # "SyntaxError" /\ ReadsOnlyInputs(SPSCode)) =>
       /\ \A i \in DOMAIN A :
            OnlyFalseSetReset(SPSCode, Banks, "A", i) => A'[i] = A[i]
       /\ \A i \in DOMAIN M :
            OnlyFalseSetReset(SPSCode, Banks, "M", i) => M'[i] = M[i]]_vars

C14_Witness ==
  /\ scansRun = 1
  /\ loaded = Text(NetSetReset)
  /\ OnlyFalseSetReset(SPSCode, Banks, "A", 0)
  /\ A[0] = "true"
  /\ RuntimeCounter = MaxCounter

\* C15: statements run in load order on the banks themselves. With the
\* networks ["U E1 = M1", "U M1 = A1"], the second network's condition
\* sees the M1 the first has written in the same scan: after the scan A1
\* is E1, whatever M1 was before the scan.
C15_LaterNetworkSeesWrite ==
  [][(scansRun' = 1 /\ loaded \in RelaySources) =>
       /\ ret' # "SyntaxError"
       /\ M'[0] = (IF Truthy(E[0]) THEN "true" ELSE "false")
       /\ A'[0] = M'[0]]_vars

\* the first scan since the banks were zeroed: M1 was 0 before it
C15_Witness ==
  /\ scansRun = 1
  /\ loaded \in RelaySources
  /\ scansSinceStop = 1
  /\ E[0] = "1"
  /\ M[0] = "true"
  /\ A[0] = "true"

\* C16 (as claimed): after load P, set Inputs I, one scan, load P again,
\* set Inputs I again, one scan, the Output and Flag banks are what they
\* were after the first scan, for every program P that loadCode accepts.
C16_ReloadRepeatsScan ==
  round.phase = 6 => (A = round.A /\ M = round.M)

\* C16 (amended): the same, for the programs whose conditions read Input
\* registers only and whose statements write none.
C16_ReloadRepeatsScanOfInputs ==
  (round.phase = 6 /\ ReadsOnlyInputs(SPSCode)) => (A = round.A /\ M = round.M)

C16_Witness ==
  /\ round.phase = 6
  /\ loaded = Text(NetSetReset)
  /\ ReadsOnlyInputs(SPSCode)
  /\ round.I[0] = "1"
  /\ A[0] = "true"
  /\ round.A = A

\* C17 (as claimed): a scan of a program that loadCode has accepted never
\* changes an Input register; the Input bank changes through setInputs and
\* stop only.
C17_ScanKeepsInputs ==
  [][scansRun' = 1 => E' = E]_vars

\* the pieces of the text that name a register
Operands(code) ==
  {p \in DOMAIN code :
     code[p].k \in {"ref", "then-set", "then-reset", "then-assign", "set", "reset"}}

\* C18 (as claimed): every operand of the installed program has an index
\* from 0 to the size of its bank less one, and the three banks have the
\* sizes given at construction (no register outside them exists).
C18_IndicesWithinBanks ==
  /\ \A p \in Operands(SPSCode) :
        SPSCode[p].i >= 0 /\ SPSCode[p].i < Length(Banks[SPSCode[p].b])
  /\ DOMAIN E = DOMAIN NewArray(NumInputs)
  /\ DOMAIN A = DOMAIN NewArray(NumOutputs)
  /\ DOMAIN M = DOMAIN NewArray(NumFlags)

\* the variables of generateJSCode before its forEach
NewCompile ==
  [errors |-> 0, JSCode |-> <<>>, openIfBlock |-> FALSE, isNewBlock |-> TRUE,
   lastInstruction |-> ""]

\* generateJSCode comes to the End of Network of the commands cs with a
\* statement begun and not closed by a target operand
OpenAtEnd(cs) ==
  /\ ~cs.isNull
  /\ ~CompileAll(NewCompile, SubSeq(cs.commandArray, 1, Len(cs.commandArray) - 1),
                 1).isNewBlock

\* C19 (as claimed): a network that reaches its End of Network with a
\* statement still open (as "U E1") is rejected: errorCallback is called
\* and loadCode returns -1; a network that passes the lexical checks and
\* ends with no statement open is accepted.
C19_OpenStatementRejected ==
  (lastOp = "loadCode" /\ ~arg.isArray
     /\ ~generateCodeStructure(arg.text).isNull) =>
       IF OpenAtEnd(generateCodeStructure(arg.text))
       THEN ret = "-1" /\ errors >= 1
       ELSE ret = "0"

\* the texts of the networks from the k-th on, each compiled on its own,
\* one after the other
RECURSIVE CompiledAlone(_, _)
CompiledAlone(networks, k) ==
  IF k > Len(networks) THEN <<>>
  ELSE generateJSCode(generateCodeStructure(networks[k]).commandArray).JSCode
         \o CompiledAlone(networks, k + 1)

\* C20 (as claimed): the program installed for an array of networks is the
\* concatenation of the programs of the networks compiled one by one; no
\* token of a network completes or alters a statement of another.
C20_NetworksCompileAlone ==
  (lastOp = "loadCode" /\ arg.isArray /\ ret = "0") =>
     SPSCode = CompiledAlone(arg.networks, 1)

\* the text generateJSCode has built from the first n commands
CompiledPrefix(commandArray, n) ==
  CompileAll(NewCompile, SubSeq(commandArray, 1, n), 1)

\* the number of commands up to and with the first one that generateJSCode
\* reports through errorCallback
FirstReported(commandArray) ==
  CHOOSE n \in 1..Len(commandArray) :
    /\ CompiledPrefix(commandArray, n).errors > 0
    /\ CompiledPrefix(commandArray, n - 1).errors = 0

\* C21 (as claimed): the compilation of a single network stops at its first
\* error: errorCallback is called at most once for the network, and no
\* token after the offending one adds to the compiled text.
C21_StopsAtFirstError ==
  (lastOp = "loadCode" /\ ~arg.isArray) =>
     /\ errors <= 1
     /\ (ret = "0" /\ errors >= 1) =>
          SPSCode = CompiledPrefix(
                      generateCodeStructure(arg.text).commandArray,
                      FirstReported(generateCodeStructure(arg.text).commandArray)
                    ).JSCode

\* C22 (as claimed): X is true exactly when the truth values of its two
\* operands differ, whatever bank they are in and however they were written:
\* after a scan of "U E2 = A1  U A1 X E1 = A2", where A1 has been written by
\* the first statement and E1 by setInputs, A2 is true exactly when A1 and
\* E1 differ in truth value (A1 true and E1 = 1 give false).
C22_XorComparesTruthValues ==
  (scansRun = 1 /\ loaded \in XorSources) =>
     /\ ret # "SyntaxError"
     /\ A[1] = (IF Truthy(A[0]) # Truthy(E[0]) THEN "true" ELSE "false")

\* C23: after one scan of "U E1 O E2 U E3 = A1" the output A1 holds
\* E1 OR (E2 AND E3), AND binding tighter than OR, and after one scan of
\* "U ( E1 O E2 ) U E3 = A1" it holds (E1 OR E2) AND E3, for every
\* combination of the three inputs.
C23_AndBindsTighterThanOr ==
  (scansRun = 1 /\ loaded \in PrecedenceSources) =>
     /\ ret # "SyntaxError"
     /\ loaded = Text(NetOrAnd) =>
          A[0] = (IF Truthy(E[0]) \/ (Truthy(E[1]) /\ Truthy(E[2]))
                  THEN "true" ELSE "false")
     /\ loaded = Text(NetBracketed) =>
          A[0] = (IF (Truthy(E[0]) \/ Truthy(E[1])) /\ Truthy(E[2])
                  THEN "true" ELSE "false")

\* a scan of the ungrouped chain with E1 set and E3 clear, where reading the
\* chain from left to right would give false
C23_Witness ==
  /\ scansRun = 1
  /\ loaded = Text(NetOrAnd)
  /\ E[0] = "1" /\ E[2] = "0"
  /\ A[0] = "true"

====
